---- MODULE Spec2Model ----
(***************************************************************************)
(* Model of the assessment submission pipeline of unified_backend.py:      *)
(*   process_assessment -> analyze_quiet_responses / fallback_analysis     *)
(*                      -> alert evaluation and AssessmentResult           *)
(*                      -> save_result (results.json append, then the      *)
(*                         Supabase insert into diagnostic_results)        *)
(*                      -> HTTP response.                                  *)
(*                                                                         *)
(* Python strings that the code inspects character by character (the      *)
(* entries of `answers`) are sequences of one-character strings; all other *)
(* strings are opaque.  Japanese literals of the source are written as     *)
(* ASCII glosses.  datetime.now() values are not modelled: no behaviour of *)
(* the pipeline reads them.                                                *)
(***************************************************************************)
EXTENDS Integers, Sequences, FiniteSets, TLC

(* ----------------------------- bounds --------------------------------- *)

\* number of requests the transport layer delivers in one behaviour
MaxRequests == 2

\* longest `answers` list that is submitted
MaxAnswers == 11

Requests == 1..MaxRequests

(* ------------------------ Python string helpers ----------------------- *)

\* characters for which str.isdecimal() holds, with their numeric value
DecimalValue ==
    [c \in {"0", "1", "2", "3", "4", "5", "6", "7", "8", "9"} |->
        CASE c = "0" -> 0 [] c = "1" -> 1 [] c = "2" -> 2 [] c = "3" -> 3
          [] c = "4" -> 4 [] c = "5" -> 5 [] c = "6" -> 6 [] c = "7" -> 7
          [] c = "8" -> 8 [] c = "9" -> 9]

DecimalChars == DOMAIN DecimalValue

\* "^2" stands for U+00B2 SUPERSCRIPT TWO: str.isdigit() is true for it,
\* int() rejects it with ValueError.
DigitChars == DecimalChars \cup {"^2"}

\* str.isdigit(): non-empty and every character is a digit character
isdigit(s) == Len(s) > 0 /\ \A k \in 1..Len(s) : s[k] \in DigitChars

\* truthiness of a str: non-empty
truthy(s) == Len(s) > 0

\* int(s) for a string that passed isdigit(): raises ValueError unless every
\* character is a decimal character
int_raises(s) == \E k \in 1..Len(s) : s[k] \notin DecimalChars

RECURSIVE int(_)
int(s) ==
    IF Len(s) = 0 THEN 0
    ELSE 10 * int(SubSeq(s, 1, Len(s) - 1)) + DecimalValue[s[Len(s)]]

(* --------------------------- request inputs --------------------------- *)

None == "None"

\* the decimal character whose value is n
DigitChar(n) == CHOOSE c \in DecimalChars : DecimalValue[c] = n

\* an all-numeric answers list of n entries; entry i is the digit i mod 10
Base(n) == [i \in 1..n |-> <<DigitChar(i % 10)>>]

\* entries that are not plain numbers: a letter, the empty string, "-1",
\* " 3", superscript two, and the two-character number "12"
OddEntries ==
    { <<"x">>, <<>>, <<"-", "1">>, <<" ", "3">>, <<"^2">>, <<"1", "2">> }

Patt(n, p, t) == [Base(n) EXCEPT ![p] = t]

\* answers of "Concrete scenario 2"
Scenario2 ==
    << <<"3">>, <<"4">>, <<"x">>, <<"2">>, <<"1">>,
       <<"5">>, <<"2">>, <<"3">>, <<"4">>, <<"1">> >>

\* answers lists of the score-summary specification
ScoreAnswers ==
    {Scenario2}
      \cup { Base(n) : n \in 0..MaxAnswers }
      \cup UNION { { Patt(n, p, t) : p \in 1..n, t \in OddEntries } :
                     n \in 1..MaxAnswers }

Alice == [name |-> "alice", age |-> 30, department |-> "sales"]
Bob == [name |-> "bob", age |-> 41, department |-> "dev"]

\* quiet_responses of "Concrete scenario 1"
Scenario1 == <<"I feel fine", "stable">>

AssessmentRequest(profile, answers, quiet) ==
    [ profile              |-> profile,
      answers              |-> answers,
      timestamp            |-> "t",
      department_questions |-> <<>>,
      quiet_responses      |-> quiet,
      heart_landscape      |-> "sea" ]

\* requests of the pipeline specification: the two scenarios, a list of nine
\* answers, and a list with an entry int() rejects
PipelineRequests ==
    { AssessmentRequest(Alice, Scenario2, Scenario1),
      AssessmentRequest(Bob, Base(9), <<>>),
      AssessmentRequest(Bob, Patt(MaxAnswers, 2, <<"^2">>), Scenario1) }

\* requests of the score-summary specification
ScoreRequests == { AssessmentRequest(Alice, a, <<>>) : a \in ScoreAnswers }

NoRequest == [profile |-> None]
NoAnalysis == [overview |-> None]
NoResult == [alert |-> None]
NoResponse == [status |-> 0]

(* ------------------------------- state -------------------------------- *)

VARIABLES
    OPENAI_ENABLED,      \* module flag, set once at import
    SUPABASE_ENABLED,    \* module flag, set once at import
    pc,                  \* position of each request's handler
    request,             \* the AssessmentRequest each handler received
    quiet_analysis,      \* local of process_assessment
    result,              \* local of process_assessment
    local_step,          \* outcome of save_result's results.json block
    remote_step,         \* outcome of save_result's Supabase block
    raised,              \* exception that left save_result, or None
    response,            \* what the caller of process_assessment gets
    results_json,        \* contents of the file results.json
    diagnostic_results   \* rows of the Supabase table diagnostic_results

vars == << OPENAI_ENABLED, SUPABASE_ENABLED, pc, request, quiet_analysis,
           result, local_step, remote_step, raised, response, results_json,
           diagnostic_results >>

(* --------------------------- analysis engine -------------------------- *)

\* mutant: the fallback carries the tag of the remote branch
fallback_analysis_stable(quiet_responses, profile) ==
    [ overview         |-> <<profile.department, " department: stable state">>,
      characteristics  |-> <<"responsibility", "cooperativeness", "ambition">>,
      quiet_analysis   |-> "evaluation by fallback analysis",
      diagnostic_tags  |-> <<"stable">>,
      alert_indicators |-> <<>> ]

\* overview is the f-string "{profile.department}<suffix>"
fallback_analysis(quiet_responses, profile) ==
    [ overview         |-> <<profile.department, " department: stable state">>,
      characteristics  |-> <<"responsibility", "cooperativeness", "ambition">>,
      quiet_analysis   |-> "evaluation by fallback analysis",
      diagnostic_tags  |-> <<"stable_state">>,
      alert_indicators |-> <<>> ]

\* mutant: the analysis flags every submission
analyze_quiet_responses_flagging(quiet_responses, profile) ==
    [ overview         |-> "stable psychological state",
      characteristics  |-> <<"well balanced", "positive", "adaptable">>,
      quiet_analysis   |-> "detailed analysis result",
      diagnostic_tags  |-> <<"stable">>,
      alert_indicators |-> <<"needs follow-up">> ]

analyze_quiet_responses(quiet_responses, profile) ==
    IF ~OPENAI_ENABLED
    THEN fallback_analysis(quiet_responses, profile)
    ELSE [ overview         |-> "stable psychological state",
           characteristics  |-> <<"well balanced", "positive", "adaptable">>,
           quiet_analysis   |-> "detailed analysis result",
           diagnostic_tags  |-> <<"stable">>,
           alert_indicators |-> <<>> ]

(* --------------------------- alert evaluation ------------------------- *)

alert_flag(analysis) == Len(analysis.alert_indicators) > 0

\* mutant: an empty string instead of None when there is no alert
alert_reason_empty_string(analysis, flag) ==
    IF flag THEN analysis.alert_indicators[1] ELSE ""

alert_reason(analysis, flag) ==
    IF flag THEN analysis.alert_indicators[1] ELSE None

AssessmentResult(profile, analysis) ==
    [ profile         |-> profile,
      quiet_analysis  |-> analysis,
      final_diagnosis |-> "diagnosis complete",
      alert           |-> alert_flag(analysis),
      alert_reason    |-> alert_reason(analysis, alert_flag(analysis)),
      image_prompt    |-> "Beautiful landscape",
      image_url       |-> None ]

(* ------------------------------ save_result --------------------------- *)

\* number of leading answers that are scanned, and the least length of
\* answers for which they are scanned at all
ScoreLimit == 10

\* 0-based positions (enumerate) of the scanned answers that are recorded
score_positions(answers) ==
    IF Len(answers) >= ScoreLimit
    THEN { i \in 0..(ScoreLimit - 1) :
             truthy(answers[i + 1]) /\ isdigit(answers[i + 1]) }
    ELSE {}

\* int(answer) raises ValueError for one of the recorded positions
score_raises(answers) ==
    \E i \in score_positions(answers) : int_raises(answers[i + 1])

\* the key f"q{i+1}"
qkey(i) == <<"q", i + 1>>

\* mutant: keys numbered from the 0-based enumerate index
score_data_zero_based(answers) ==
    [ k \in { <<"q", i>> : i \in score_positions(answers) } |->
        int(answers[k[2] + 1]) ]

score_data(answers) ==
    [ k \in { qkey(i) : i \in score_positions(answers) } |->
        int(answers[k[2]]) ]

\* json.dumps(gpt_result, ensure_ascii=False)
json_dumps(value) == <<"json", value>>

\* mutant: the line terminator is not written
log_line_unterminated(rid, user_id, answers, gpt_result) ==
    [ rid |-> rid, id |-> user_id, answers |-> answers,
      result |-> gpt_result, newline |-> FALSE ]

\* one record followed by "\n"; rid names the save call that wrote it
log_line(rid, user_id, answers, gpt_result) ==
    [ rid |-> rid, id |-> user_id, answers |-> answers,
      result |-> gpt_result, newline |-> TRUE ]

\* what is left in the file when the write fails part way
partial_line(rid) == [ rid |-> rid, newline |-> FALSE ]

\* mutant: mode "w" truncates the file
open_w(contents) == <<>>

\* open("results.json", "a"): the contents the writes are added to
open_a(contents) == contents

\* mutant: the results.json block has a handler of its own, and the
\* Supabase block follows it
local_failure_own_handler == "remote_block"

\* where control goes when the results.json block raises: the block has no
\* handler of its own, so to the except of the enclosing try
local_failure_target == "outer_except"

\* `except Exception as supabase_error`
inner_except_catches(exc) == exc \in {"OSError", "ValueError", "APIError"}

\* mutant: the outer handler does not cover file errors
outer_except_narrow(exc) == exc = "ValueError"

\* `except Exception as e`
outer_except_catches(exc) == exc \in {"OSError", "ValueError", "APIError"}

diagnostic_row(rid, user_id, answers, gpt_result) ==
    [ rid           |-> rid,
      user_id       |-> user_id,
      score_summary |-> score_data(answers),
      gpt_comment   |-> json_dumps(gpt_result),
      origin        |-> "mindscape" ]

(* ------------------------------- actions ------------------------------ *)

\* The handlers of different requests are interleaved between the blocks of
\* process_assessment and save_result.  The event loop that runs the
\* handlers switches between them at most there; every run of the handler to
\* completion is one of the interleavings.

Init ==
    /\ OPENAI_ENABLED \in BOOLEAN
    /\ SUPABASE_ENABLED \in BOOLEAN
    /\ pc = [r \in Requests |-> "idle"]
    /\ request = [r \in Requests |-> NoRequest]
    /\ quiet_analysis = [r \in Requests |-> NoAnalysis]
    /\ result = [r \in Requests |-> NoResult]
    /\ local_step = [r \in Requests |-> "pending"]
    /\ remote_step = [r \in Requests |-> "pending"]
    /\ raised = [r \in Requests |-> None]
    /\ response = [r \in Requests |-> NoResponse]
    /\ results_json = <<>>
    /\ diagnostic_results = <<>>

\* process_assessment is entered with a validated request and awaits
\* analyze_quiet_responses; requests are numbered in their order of arrival
Analyze(r, req) ==
    /\ pc[r] = "idle"
    /\ \A q \in Requests : q < r => pc[q] # "idle"
    /\ request' = [request EXCEPT ![r] = req]
    /\ quiet_analysis' =
         [quiet_analysis EXCEPT
            ![r] = analyze_quiet_responses(req.quiet_responses, req.profile)]
    /\ pc' = [pc EXCEPT ![r] = "analyzed"]
    /\ UNCHANGED << OPENAI_ENABLED, SUPABASE_ENABLED, result, local_step,
                    remote_step, raised, response, results_json,
                    diagnostic_results >>

\* alert evaluation and construction of the AssessmentResult
Assemble(r) ==
    /\ pc[r] = "analyzed"
    /\ result' =
         [result EXCEPT
            ![r] = AssessmentResult(request[r].profile, quiet_analysis[r])]
    /\ pc' = [pc EXCEPT ![r] = "assembled"]
    /\ UNCHANGED << OPENAI_ENABLED, SUPABASE_ENABLED, request, quiet_analysis,
                    local_step, remote_step, raised, response, results_json,
                    diagnostic_results >>

\* save_result: the results.json block runs to its end
LocalAppend(r) ==
    /\ pc[r] = "assembled"
    /\ results_json' =
         Append(open_a(results_json),
                log_line(r, request[r].profile.name, request[r].answers,
                         result[r]))
    /\ local_step' = [local_step EXCEPT ![r] = "written"]
    /\ pc' = [pc EXCEPT ![r] = "remote_block"]
    /\ UNCHANGED << OPENAI_ENABLED, SUPABASE_ENABLED, request, quiet_analysis,
                    result, remote_step, raised, response,
                    diagnostic_results >>

\* save_result: the results.json block raises OSError: from open() (nothing
\* is written), from a write (part of the line is on disk), or from the
\* close at the end of the with block (the line is on disk)
LocalFailure(r, where) ==
    /\ pc[r] = "assembled"
    /\ results_json' =
         CASE where = "open" -> results_json
           [] where = "write" ->
                Append(open_a(results_json), partial_line(r))
           [] where = "close" ->
                Append(open_a(results_json),
                       log_line(r, request[r].profile.name,
                                request[r].answers, result[r]))
    /\ local_step' = [local_step EXCEPT ![r] = "OSError"]
    /\ IF local_failure_target = "outer_except"
       THEN /\ pc' = [pc EXCEPT ![r] = "saved"]
            /\ remote_step' = [remote_step EXCEPT ![r] = "not_attempted"]
            /\ raised' =
                 [raised EXCEPT
                    ![r] = IF outer_except_catches("OSError") THEN None
                           ELSE "OSError"]
       ELSE /\ pc' = [pc EXCEPT ![r] = "remote_block"]
            /\ UNCHANGED << remote_step, raised >>
    /\ UNCHANGED << OPENAI_ENABLED, SUPABASE_ENABLED, request, quiet_analysis,
                    result, response, diagnostic_results >>

\* save_result: `if SUPABASE_ENABLED` is false
SupabaseDisabled(r) ==
    /\ pc[r] = "remote_block"
    /\ ~SUPABASE_ENABLED
    /\ remote_step' = [remote_step EXCEPT ![r] = "disabled"]
    /\ pc' = [pc EXCEPT ![r] = "saved"]
    /\ UNCHANGED << OPENAI_ENABLED, SUPABASE_ENABLED, request, quiet_analysis,
                    result, local_step, raised, response, results_json,
                    diagnostic_results >>

\* save_result: the score summary is built and the row is inserted
SupabaseInsert(r) ==
    /\ pc[r] = "remote_block"
    /\ SUPABASE_ENABLED
    /\ ~score_raises(request[r].answers)
    /\ diagnostic_results' =
         Append(diagnostic_results,
                diagnostic_row(r, request[r].profile.name, request[r].answers,
                               result[r]))
    /\ remote_step' = [remote_step EXCEPT ![r] = "inserted"]
    /\ pc' = [pc EXCEPT ![r] = "saved"]
    /\ UNCHANGED << OPENAI_ENABLED, SUPABASE_ENABLED, request, quiet_analysis,
                    result, local_step, raised, response, results_json >>

\* save_result: the Supabase block raises, either ValueError from int() while
\* the score summary is built or APIError from insert(...).execute()
SupabaseError(r, exc) ==
    /\ pc[r] = "remote_block"
    /\ SUPABASE_ENABLED
    /\ exc = "ValueError" <=> score_raises(request[r].answers)
    /\ remote_step' = [remote_step EXCEPT ![r] = exc]
    /\ raised' =
         [raised EXCEPT
            ![r] = IF inner_except_catches(exc) \/ outer_except_catches(exc)
                   THEN None ELSE exc]
    /\ pc' = [pc EXCEPT ![r] = "saved"]
    /\ UNCHANGED << OPENAI_ENABLED, SUPABASE_ENABLED, request, quiet_analysis,
                    result, local_step, response, results_json,
                    diagnostic_results >>

\* process_assessment returns the result, or its except clause turns an
\* exception into HTTPException(status_code=500)
Respond(r) ==
    /\ pc[r] = "saved"
    /\ response' =
         [response EXCEPT
            ![r] = IF raised[r] = None
                   THEN [status |-> 200, body |-> result[r]]
                   ELSE [status |-> 500, detail |-> raised[r]]]
    /\ pc' = [pc EXCEPT ![r] = "done"]
    /\ UNCHANGED << OPENAI_ENABLED, SUPABASE_ENABLED, request, quiet_analysis,
                    result, local_step, remote_step, raised, results_json,
                    diagnostic_results >>

Step(r) ==
    \/ Assemble(r)
    \/ LocalAppend(r)
    \/ \E where \in {"open", "write", "close"} : LocalFailure(r, where)
    \/ SupabaseDisabled(r)
    \/ SupabaseInsert(r)
    \/ \E exc \in {"ValueError", "APIError"} : SupabaseError(r, exc)
    \/ Respond(r)

Next ==
    \E r \in Requests :
        \/ \E req \in PipelineRequests : Analyze(r, req)
        \/ Step(r)

Spec == Init /\ [][Next]_vars

\* one request at a time, over the wide set of answers lists
NextScore ==
    \/ \E req \in ScoreRequests : Analyze(1, req)
    \/ Step(1)

SpecScore == Init /\ [][NextScore]_vars

(* ------------------------- auxiliary definitions ---------------------- *)

Finished(r) == pc[r] \in {"saved", "done"}

\* complete lines of results.json written by save call r
LinesOf(r) ==
    { j \in DOMAIN results_json :
        results_json[j].rid = r /\ results_json[j].newline }

\* the Supabase block of save call r was entered
RemoteAttempted(r) == remote_step[r] \in {"inserted", "ValueError", "APIError"}

IsPrefix(a, b) == Len(a) <= Len(b) /\ SubSeq(b, 1, Len(a)) = a

\* a non-empty string of decimal digits
IsDecimalString(s) == Len(s) > 0 /\ \A k \in 1..Len(s) : s[k] \in DecimalChars

\* the number a string of decimal digits denotes, read from the left
RECURSIVE Denotes(_, _)
Denotes(s, acc) ==
    IF Len(s) = 0 THEN acc
    ELSE Denotes(Tail(s), 10 * acc + DecimalValue[Head(s)])

\* the summary the specification gives for the answers of scenario 2
Scenario2Summary ==
    <<"q", 1>> :> 3 @@ <<"q", 2>> :> 4 @@ <<"q", 4>> :> 2 @@ <<"q", 5>> :> 1
      @@ <<"q", 6>> :> 5 @@ <<"q", 7>> :> 2 @@ <<"q", 8>> :> 3
      @@ <<"q", 9>> :> 4 @@ <<"q", 10>> :> 1

\* the positions 1..10 of answers whose entry is a decimal string
NumericPositions(answers) ==
    { i \in 1..10 : i <= Len(answers) /\ IsDecimalString(answers[i]) }

SummaryIs(summary, answers, positions) ==
    /\ DOMAIN summary = { <<"q", i>> : i \in positions }
    /\ \A i \in positions : summary[<<"q", i>>] = Denotes(answers[i], 0)
    /\ Cardinality(DOMAIN summary) <= 10

FallbackFor(profile) ==
    [ overview         |-> <<profile.department, " department: stable state">>,
      characteristics  |-> <<"responsibility", "cooperativeness", "ambition">>,
      quiet_analysis   |-> "evaluation by fallback analysis",
      diagnostic_tags  |-> <<"stable_state">>,
      alert_indicators |-> <<>> ]

(* -------------------------------- claims ------------------------------ *)

\* C1 (as claimed): when a save call has ended and the remote store is
\* enabled, the remote insert was attempted in that call, even if the local
\* open or write failed; and a failed remote insert leaves the local line in
\* place.
C1_StepsIndependent ==
    \A r \in Requests :
        Finished(r) =>
            /\ SUPABASE_ENABLED => RemoteAttempted(r)
            /\ local_step[r] = "written" => LinesOf(r) # {}

\* C2 (as claimed): for answers of any length, the score_summary of an
\* inserted row has key q<i>, 1 <= i <= 10, exactly when position i exists and
\* its entry is a non-negative integer, with that integer as value, and has
\* at most 10 keys.
C2_AnyLength ==
    \A k \in DOMAIN diagnostic_results :
        LET row == diagnostic_results[k]
            answers == request[row.rid].answers
        IN  SummaryIs(row.score_summary, answers, NumericPositions(answers))

\* C2 (amended): for answers of at least 10 entries, the score_summary of an
\* inserted row has key q<i>, 1 <= i <= 10, exactly when entry i is a
\* non-empty string of decimal digits, with its value; for fewer than 10
\* entries the summary is empty; scenario 2 gives the summary of the
\* specification; there are never more than 10 keys.
C2_AtLeastTen ==
    \A k \in DOMAIN diagnostic_results :
        LET row == diagnostic_results[k]
            answers == request[row.rid].answers
        IN  /\ SummaryIs(row.score_summary, answers,
                         IF Len(answers) >= 10 THEN NumericPositions(answers)
                         ELSE {})
            /\ answers = Scenario2 => row.score_summary = Scenario2Summary

\* a row for the answers of scenario 2 has been inserted
C2_Witness ==
    \E k \in DOMAIN diagnostic_results :
        /\ request[diagnostic_results[k].rid].answers = Scenario2
        /\ <<"q", 3>> \notin DOMAIN diagnostic_results[k].score_summary
        /\ <<"q", 10>> \in DOMAIN diagnostic_results[k].score_summary

\* C4: a save call enters its Supabase block only after its results.json
\* block has written its line, and every row of the remote store has a
\* complete line of the same save call, with the same user and result, in
\* results.json.
C4_LocalLineBeforeRemoteRow ==
    /\ \A r \in Requests : RemoteAttempted(r) => local_step[r] = "written"
    /\ \A k \in DOMAIN diagnostic_results :
         \E j \in LinesOf(diagnostic_results[k].rid) :
            /\ results_json[j].id = diagnostic_results[k].user_id
            /\ json_dumps(results_json[j].result)
                 = diagnostic_results[k].gpt_comment

\* a row is in the remote store, and another save call has lost its local
\* line
C4_Witness ==
    /\ Len(diagnostic_results) >= 1
    /\ \E r \in Requests : local_step[r] = "OSError" /\ Finished(r)

\* C5 (as claimed): every save call that has ended has added exactly one
\* line to results.json.
C5_EveryCallOneLine ==
    \A r \in Requests : Finished(r) => Cardinality(LinesOf(r)) = 1

\* C5 (amended): a save call whose results.json block ends without an
\* exception has added exactly one line to results.json, whatever the remote
\* outcome; no save call adds more than one line.
C5_OneLinePerLocalSuccess ==
    \A r \in Requests :
        /\ local_step[r] = "written" => Cardinality(LinesOf(r)) = 1
        /\ Cardinality(LinesOf(r)) <= 1

\* save calls with a failed insert, with a successful insert, each with its
\* one line
C5_Witness ==
    \E r1, r2 \in Requests :
        /\ Finished(r1) /\ remote_step[r1] = "APIError"
        /\ Finished(r2) /\ remote_step[r2] = "inserted"
        /\ Cardinality(LinesOf(r1)) = 1 /\ Cardinality(LinesOf(r2)) = 1

\* C6: no exception leaves save_result, whatever fails in it, and
\* process_assessment answers 200 with the assembled result.
C6_SaveNeverRaises ==
    \A r \in Requests :
        /\ Finished(r) => raised[r] = None
        /\ pc[r] = "done" => response[r] = [status |-> 200, body |-> result[r]]

\* one request answered after its local write failed, another after its
\* remote insert failed
C6_Witness ==
    \E r1, r2 \in Requests :
        /\ pc[r1] = "done" /\ local_step[r1] = "OSError"
        /\ pc[r2] = "done" /\ remote_step[r2] = "APIError"
        /\ response[r1].status = 200 /\ response[r2].status = 200

\* C7: in every returned result, alert is (number of alert indicators > 0)
\* and alert_reason is the first indicator when alert holds, None otherwise.
C7_AlertFromIndicators ==
    \A r \in Requests :
        (pc[r] = "done" /\ response[r].status = 200) =>
            LET body == response[r].body
                indicators == body.quiet_analysis.alert_indicators
            IN  /\ body.alert = (Len(indicators) > 0)
                /\ body.alert => body.alert_reason = indicators[1]
                /\ ~body.alert => body.alert_reason = None

\* results have been returned for both profiles
C7_Witness ==
    \E r1, r2 \in Requests :
        /\ pc[r1] = "done" /\ response[r1].status = 200
        /\ pc[r2] = "done" /\ response[r2].status = 200
        /\ response[r1].body.profile # response[r2].body.profile

\* C8: with OPENAI_ENABLED false, every analysis is the fixed fallback
\* seeded with the profile's department, and every response is a 200 with
\* diagnostic_tags ["stable_state"], alert false and alert_reason None.
C8_FallbackWhenDisabled ==
    ~OPENAI_ENABLED =>
        \A r \in Requests :
            /\ pc[r] # "idle" =>
                 quiet_analysis[r] = FallbackFor(request[r].profile)
            /\ pc[r] = "done" =>
                 /\ response[r].status = 200
                 /\ response[r].body.quiet_analysis.diagnostic_tags
                      = <<"stable_state">>
                 /\ response[r].body.alert = FALSE
                 /\ response[r].body.alert_reason = None

\* scenario 1 has been answered with remote analysis disabled
C8_Witness ==
    /\ ~OPENAI_ENABLED
    /\ \E r \in Requests :
         /\ pc[r] = "done"
         /\ request[r].quiet_responses = Scenario1
         /\ response[r].body.quiet_analysis.overview
              = <<"sales", " department: stable state">>

\* C9: results.json only grows at its end: its contents before a step are a
\* prefix of its contents after it, and the line of every save call whose
\* local write succeeded stays in the file.
C9_AppendOnly ==
    /\ [][IsPrefix(results_json, results_json')]_vars
    /\ [](\A r \in Requests : local_step[r] = "written" => LinesOf(r) # {})

\* two requests have interleaved: the later arrival wrote its line first
C9_Witness ==
    /\ Len(results_json) >= 2
    /\ results_json[1].rid = 2 /\ results_json[1].newline
    /\ results_json[2].rid = 1 /\ results_json[2].newline

\* C10: no result has alert true or an alert_reason, with remote analysis
\* enabled or disabled.
C10_NeverAlert ==
    \A r \in Requests :
        /\ result[r] # NoResult =>
             result[r].alert = FALSE /\ result[r].alert_reason = None
        /\ (pc[r] = "done" /\ response[r].status = 200) =>
             response[r].body.alert = FALSE
               /\ response[r].body.alert_reason = None

\* results have been returned with remote analysis enabled
C10_Witness ==
    /\ OPENAI_ENABLED
    /\ \E r \in Requests :
         /\ pc[r] = "done"
         /\ response[r].status = 200
         /\ response[r].body.quiet_analysis.diagnostic_tags = <<"stable">>

====
